---- MODULE Spec2Model ----
(***************************************************************************)
(* Model of the projection engine of pocket-calculators: the four product  *)
(* calculators (calculators/*_calculator.py), the dynamics module          *)
(* (calculators/dynamics.py) and the withdrawal strategies                 *)
(* (calculators/withdrawal_strategy.py).                                   *)
(*                                                                         *)
(* Numbers.  The Python code computes on floats.  Here every amount of     *)
(* money is an integer number of currency units and every rate (return,    *)
(* cost ratio, tax rate, inflation, dynamics) is an integer number of      *)
(* thousandths, so 0.07 is 70 and 1.0 is 1000.  A product money * rate is   *)
(* rounded down to a whole unit (MulRate), which stands for the rounding   *)
(* of the float product.  Everything else (order of operations, branches,  *)
(* loops, what is stored in the result) follows the source line by line.   *)
(***************************************************************************)
EXTENDS Integers, Sequences, FiniteSets, TLC

VARIABLES calc, cfg, pc, res

vars == <<calc, cfg, pc, res>>

-----------------------------------------------------------------------------
(* Arithmetic helpers *)

\* One whole (1.0) in thousandths: the unit of every rate.
Scale == 10 * 10 * 10

MonthsPerYear == 12

Max(a, b) == IF a >= b THEN a ELSE b

Min(a, b) == IF a <= b THEN a ELSE b

\* x * r for a rate r.
MulRate(x, r) == (x * r) \div Scale

\* balance * (1 + annual_rate / 12): one month of growth.
MonthlyGrowth(balance, annual_rate) ==
    balance + (balance * annual_rate) \div (MonthsPerYear * Scale)

\* x * ((1 + r) ** n)
RECURSIVE GrowYears(_, _, _)
GrowYears(x, r, n) ==
    IF n <= 0 THEN x ELSE GrowYears(x + MulRate(x, r), r, n - 1)

-----------------------------------------------------------------------------
(* Float arithmetic where the rounding decides an integer result.          *)
(* A float x >= 1 is the record [int, frac] of its integer part and the     *)
(* bits after the binary point, most significant first; together they are  *)
(* the MantissaBits significant bits of an IEEE 754 double.  Results are    *)
(* rounded to nearest, ties to even, as the hardware does.                  *)

\* The significant bits of a Python float.
MantissaBits == 52 + 1

RECURSIVE BitLength(_)
BitLength(n) == IF n < 2 THEN 1 ELSE 1 + BitLength(n \div 2)

\* Bits are produced and consumed ChunkBits at a time.
ChunkBits == 2 * 2 * 2

\* The n-bit binary numeral of d, most significant bit first.
DigitBits(d, n) == [j \in 1 .. n |-> (d \div 2 ^ (n - j)) % 2]

\* The number whose binary numeral is bits.
RECURSIVE BitsToInt(_)
BitsToInt(bits) ==
    IF Len(bits) = 0
    THEN 0
    ELSE 2 * BitsToInt(SubSeq(bits, 1, Len(bits) - 1)) + bits[Len(bits)]

\* The first n bits after the binary point of r / k, for 0 <= r < k, appended
\* to bits, and the remainder that is left.
RECURSIVE FractionBits(_, _, _, _)
FractionBits(r, k, n, bits) ==
    IF n = 0
    THEN [bits |-> bits, r |-> r]
    ELSE LET m == Min(n, ChunkBits)
             d == r * 2 ^ m
         IN  FractionBits(d % k, k, n - m, bits \o DigitBits(d \div k, m))

\* The next float above [int |-> ip, frac |-> frac].
FloatIncrement(ip, frac) ==
    IF \A j \in 1 .. Len(frac) : frac[j] = 1
    THEN [int |-> ip + 1,
          frac |-> IF BitLength(ip + 1) > BitLength(ip) /\ Len(frac) > 0
                   THEN [j \in 1 .. Len(frac) - 1 |-> 0]
                   ELSE [j \in 1 .. Len(frac) |-> 0]]
    ELSE LET z == CHOOSE j \in 1 .. Len(frac) :
                      frac[j] = 0 /\ \A l \in j + 1 .. Len(frac) : frac[l] = 1
         IN  [int |-> ip,
              frac |-> [j \in 1 .. Len(frac) |->
                           IF j < z THEN frac[j] ELSE IF j = z THEN 1 ELSE 0]]

\* The float nearest to ip + 0.bits (+ something below the last bit if sticky).
FloatRound(ip, bits, sticky) ==
    LET n == MantissaBits - BitLength(ip)
        kept == SubSeq(bits, 1, n)
        guard == IF Len(bits) > n THEN bits[n + 1] ELSE 0
        rest == sticky \/ \E j \in n + 2 .. Len(bits) : bits[j] = 1
        last == IF n = 0 THEN ip % 2 ELSE bits[n]
    IN  IF guard = 1 /\ (rest \/ last = 1)
        THEN FloatIncrement(ip, kept)
        ELSE [int |-> ip, frac |-> kept]

\* y / k for integers y >= k >= 1.
FloatDiv(y, k) ==
    LET d == FractionBits(y % k, k, MantissaBits, <<>>)
    IN  FloatRound(y \div k, d.bits, d.r # 0)

\* The bits of frac * i from bit j down to the first, and the carry into the
\* integer part.
RECURSIVE MulBits(_, _, _, _, _)
MulBits(frac, i, j, carry, bits) ==
    IF j = 0
    THEN [carry |-> carry, bits |-> bits]
    ELSE LET m == Min(j, ChunkBits)
             d == BitsToInt(SubSeq(frac, j - m + 1, j)) * i + carry
         IN  MulBits(frac, i, j - m, d \div 2 ^ m,
                     DigitBits(d % 2 ^ m, m) \o bits)

\* x * i for a float x >= 1 and an integer i >= 1.
FloatMul(x, i) ==
    LET p == MulBits(x.frac, i, Len(x.frac), 0, <<>>)
    IN  FloatRound(x.int * i + p.carry, p.bits, FALSE)

\* int(x)
FloatToInt(x) == x.int

-----------------------------------------------------------------------------
(* base_calculator.py *)

\* BaseCalculator._compound_interest: the loop over month = 1 .. years * 12.
RECURSIVE compound_loop(_, _, _, _, _, _)
compound_loop(balance, yearly_values, month, months, monthly_payment, annual_rate) ==
    IF month > months
    THEN [balance |-> balance, yearly_values |-> yearly_values]
    ELSE LET b == MonthlyGrowth(balance, annual_rate) + monthly_payment
             yv == IF month % MonthsPerYear = 0
                   THEN Append(yearly_values, <<month \div MonthsPerYear, b>>)
                   ELSE yearly_values
         IN  compound_loop(b, yv, month + 1, months, monthly_payment, annual_rate)

compound_interest(monthly_payment, annual_rate, years) ==
    compound_loop(0, <<>>, 1, years * MonthsPerYear, monthly_payment, annual_rate)

\* InvestmentResult.profit
profit(r) == r.total_value - r.total_paid

\* InvestmentResult.net_investment
net_investment(r) == r.gross_paid - r.state_allowances - r.tax_savings

-----------------------------------------------------------------------------
(* dynamics.py *)

\* The 12 months of one year in calculate_with_contribution_dynamics.
RECURSIVE dynamics_months(_, _, _, _, _)
dynamics_months(total_capital, total_contributions, month, contribution, annual_return) ==
    IF month >= MonthsPerYear
    THEN [total_capital |-> total_capital, total_contributions |-> total_contributions]
    ELSE dynamics_months(MonthlyGrowth(total_capital, annual_return) + contribution,
                         total_contributions + contribution,
                         month + 1, contribution, annual_return)

\* The loop over year = 1 .. years in calculate_with_contribution_dynamics.
RECURSIVE dynamics_years(_, _, _, _, _, _, _, _)
dynamics_years(total_capital, yearly_values, total_contributions, contribution, year, years, annual_dynamics_rate, annual_return) ==
    IF year > years
    THEN [total_capital |-> total_capital, yearly_values |-> yearly_values,
          total_contributions |-> total_contributions]
    ELSE LET m == dynamics_months(total_capital, total_contributions, 0,
                                  contribution, annual_return)
         IN  dynamics_years(m.total_capital,
                            Append(yearly_values, m.total_capital),
                            m.total_contributions,
                            contribution + MulRate(contribution, annual_dynamics_rate),
                            year + 1, years, annual_dynamics_rate, annual_return)

\* Mutant of calculate_with_contribution_dynamics: the contribution never grows.
calculate_with_frozen_contribution(initial_monthly_contribution, annual_dynamics_rate, years, annual_return, initial_investment) ==
    dynamics_years(initial_investment, <<initial_investment>>, initial_investment,
                   initial_monthly_contribution, 1, years, 0, annual_return)

\* Mutant of calculate_with_contribution_dynamics: the first year is already
\* paid at the raised contribution.
calculate_with_early_dynamics(initial_monthly_contribution, annual_dynamics_rate, years, annual_return, initial_investment) ==
    dynamics_years(initial_investment, <<initial_investment>>, initial_investment,
                   initial_monthly_contribution
                     + MulRate(initial_monthly_contribution, annual_dynamics_rate),
                   1, years, annual_dynamics_rate, annual_return)

calculate_with_contribution_dynamics(initial_monthly_contribution, annual_dynamics_rate, years, annual_return, initial_investment) ==
    dynamics_years(initial_investment, <<initial_investment>>, initial_investment,
                   initial_monthly_contribution, 1, years,
                   annual_dynamics_rate, annual_return)

\* (1 + annual_inflation_rate) ** year, in thousandths.
inflation_factor(annual_inflation_rate, year) ==
    GrowYears(Scale, annual_inflation_rate, year)

\* The loop of adjust_for_inflation over enumerate(nominal_values); year counts
\* from 0.  The division raises ZeroDivisionError when the factor is 0.
RECURSIVE adjust_loop(_, _, _, _)
adjust_loop(nominal_values, annual_inflation_rate, year, real_values) ==
    IF year >= Len(nominal_values)
    THEN [real_values |-> real_values]
    ELSE LET factor == inflation_factor(annual_inflation_rate, year)
         IN  IF factor = 0
             THEN [error |-> "ZeroDivisionError"]
             ELSE adjust_loop(nominal_values, annual_inflation_rate, year + 1,
                              Append(real_values,
                                     (nominal_values[year + 1] * Scale) \div factor))

\* Mutant of adjust_for_inflation: the first value is already discounted by
\* one year.
adjust_for_inflation_from_year_one(nominal_values, annual_inflation_rate) ==
    adjust_loop(<<0>> \o nominal_values, annual_inflation_rate, 1, <<>>)

\* adjust_for_inflation
adjust_for_inflation(nominal_values, annual_inflation_rate) ==
    adjust_loop(nominal_values, annual_inflation_rate, 0, <<>>)

-----------------------------------------------------------------------------
(* comparison.py *)

\* Mutant of insert_position: an element goes in front of the elements of
\* equal total_value.
insert_position_before_ties(x, list) ==
    Cardinality({i \in 1 .. Len(list) : list[i].total_value > x.total_value})

\* Where sorted(..., key=total_value, reverse=True) places x among the
\* elements list that came before it and are already in order: behind every
\* element whose total_value is not smaller (the sort is stable).
insert_position(x, list) ==
    Cardinality({i \in 1 .. Len(list) : list[i].total_value >= x.total_value})

\* sorted(results, key=lambda x: x.total_value, reverse=True): a new list.
RECURSIVE sorted_loop(_, _, _)
sorted_loop(results, i, list) ==
    IF i > Len(results)
    THEN list
    ELSE LET k == insert_position(results[i], list)
         IN  sorted_loop(results, i + 1,
                         SubSeq(list, 1, k) \o <<results[i]>>
                           \o SubSeq(list, k + 1, Len(list)))

sorted_by_total_value(results) == sorted_loop(results, 1, <<>>)

\* Comparison.__init__: the attribute self.results.
Comparison_init(results) == sorted_by_total_value(results)

\* Comparison.get_recommendation: the product and the value that the text
\* names, or the IndexError of self.results[0] on an empty list.
get_recommendation(results) ==
    IF Len(results) = 0
    THEN [error |-> "IndexError"]
    ELSE LET best == results[1]
         IN  [name |-> best.name, total_value |-> best.total_value]

-----------------------------------------------------------------------------
(* etf_calculator.py *)

\* rebalancing_years (lines 176-180): the list of int(interval * i) for
\* i = 1 .. rebalancing_count, with interval = years / (rebalancing_count + 1)
\* computed on floats.  It is built only after the check of line 173, so
\* years >= rebalancing_count + 1.
rebalancing_years(c) ==
    IF c.rebalancing_count > 0
    THEN LET interval == FloatDiv(c.years, c.rebalancing_count + 1)
         IN  [i \in 1 .. c.rebalancing_count |-> FloatToInt(FloatMul(interval, i))]
    ELSE <<>>

\* x in list
InList(x, list) == \E i \in 1 .. Len(list) : list[i] = x

\* The 12 months of one year of the rebalancing simulation.
RECURSIVE rebalancing_months(_, _, _, _)
rebalancing_months(st, month, c, net_annual_return) ==
    IF month >= MonthsPerYear
    THEN st
    ELSE rebalancing_months(
             [st EXCEPT !.balance = MonthlyGrowth(@, net_annual_return)
                                        + c.monthly_contribution,
                        !.invested_capital = @ + c.monthly_contribution,
                        !.total_order_fees = @ + c.order_fee],
             month + 1, c, net_annual_return)

\* Mutant of rebalancing_event: the order fee of the event is taken out of the
\* balance that goes on compounding.
rebalancing_event_fee_from_balance(st, c) ==
    LET current_gain == st.balance - st.invested_capital
        taxable_gain == Max(0, current_gain - st.remaining_tax_allowance)
        taxes == MulRate(taxable_gain, c.capital_gains_tax)
        used_allowance == Min(current_gain, st.remaining_tax_allowance)
        sell_spread_cost == MulRate(st.balance, c.spread)
        after_sale == st.balance - taxes - sell_spread_cost
        buy_spread_cost == MulRate(after_sale, c.spread)
        balance == after_sale - buy_spread_cost - c.order_fee
    IN  [st EXCEPT !.balance = balance,
                   !.total_rebalancing_taxes = @ + taxes,
                   !.remaining_tax_allowance = @ - used_allowance,
                   !.total_rebalancing_costs =
                        @ + sell_spread_cost + buy_spread_cost + c.order_fee,
                   !.events = Append(@, [year |-> st.year,
                                         balance_before |-> st.balance,
                                         balance_after |-> balance,
                                         allowance_after |->
                                             st.remaining_tax_allowance - used_allowance,
                                         current_gain |-> current_gain,
                                         allowance_before |-> st.remaining_tax_allowance,
                                         taxes |-> taxes,
                                         sell_spread_cost |-> sell_spread_cost,
                                         buy_spread_cost |-> buy_spread_cost,
                                         used_allowance |-> used_allowance])]

\* The liquidation and reinvestment at the end of a rebalancing year.
rebalancing_event(st, c) ==
    LET current_gain == st.balance - st.invested_capital
        taxable_gain == Max(0, current_gain - st.remaining_tax_allowance)
        taxes == MulRate(taxable_gain, c.capital_gains_tax)
        used_allowance == Min(current_gain, st.remaining_tax_allowance)
        sell_spread_cost == MulRate(st.balance, c.spread)
        after_sale == st.balance - taxes - sell_spread_cost
        buy_spread_cost == MulRate(after_sale, c.spread)
    IN  [st EXCEPT !.balance = after_sale - buy_spread_cost,
                   !.total_rebalancing_taxes = @ + taxes,
                   !.remaining_tax_allowance = @ - used_allowance,
                   !.total_rebalancing_costs =
                        @ + sell_spread_cost + buy_spread_cost + c.order_fee,
                   !.total_order_fees = @ + c.order_fee,
                   !.events = Append(@, [year |-> st.year,
                                         balance_before |-> st.balance,
                                         balance_after |-> after_sale - buy_spread_cost,
                                         allowance_after |->
                                             st.remaining_tax_allowance - used_allowance,
                                         current_gain |-> current_gain,
                                         allowance_before |-> st.remaining_tax_allowance,
                                         taxes |-> taxes,
                                         sell_spread_cost |-> sell_spread_cost,
                                         buy_spread_cost |-> buy_spread_cost,
                                         used_allowance |-> used_allowance])]

\* One iteration of the loop over year = 1 .. years of the simulation.
rebalancing_year(st, year, c, net_annual_return) ==
    LET s0 == [st EXCEPT !.year = year, !.remaining_tax_allowance = c.tax_allowance]
        s1 == rebalancing_months(s0, 0, c, net_annual_return)
        s2 == [s1 EXCEPT !.total_depot_fees = @ + c.depot_fee_yearly]
        s3 == IF InList(year, st.rebalancing_years) THEN rebalancing_event(s2, c) ELSE s2
    IN  [s3 EXCEPT !.yearly_values = Append(@, <<year, s3.balance>>)]

RECURSIVE rebalancing_loop(_, _, _, _)
rebalancing_loop(st, year, c, net_annual_return) ==
    IF year > c.years
    THEN st
    ELSE rebalancing_loop(rebalancing_year(st, year, c, net_annual_return),
                          year + 1, c, net_annual_return)

\* The hypothetical terminal value without TER and spread (final_without_costs).
final_without_costs(c) ==
    compound_interest(c.monthly_contribution, c.annual_return, c.years).balance
    + (IF c.initial_investment > 0
       THEN GrowYears(c.initial_investment, c.annual_return, c.years)
       ELSE 0)

\* The year-by-year simulation of _calculate_with_rebalancing (lines 176-245):
\* the local variables after the loop.  The field events is a record of what
\* each rebalancing event did; the code keeps no such list.
rebalancing_simulation(c, net_annual_return) ==
    rebalancing_loop(
        [rebalancing_years |-> rebalancing_years(c),
         year |-> 0,
         balance |-> IF c.initial_investment > 0
                     THEN c.initial_investment - MulRate(c.initial_investment, c.spread)
                     ELSE 0,
         invested_capital |-> IF c.initial_investment > 0
                              THEN c.initial_investment ELSE 0,
         yearly_values |-> <<>>,
         total_order_fees |-> 0,
         total_depot_fees |-> 0,
         total_rebalancing_taxes |-> 0,
         total_rebalancing_costs |-> 0,
         remaining_tax_allowance |-> 0,
         events |-> <<>>],
        1, c, net_annual_return)

\* The terminal sale of _calculate_with_rebalancing (lines 248-288), given the
\* local variables st that the simulation leaves behind.
rebalancing_result(st, c, net_annual_return, total_paid) ==
    LET final_value == st.balance - st.total_depot_fees - st.total_order_fees
        final_capital_gain == final_value - st.invested_capital
        remaining_tax_allowance ==
            IF ~InList(c.years, st.rebalancing_years)
            THEN c.tax_allowance ELSE st.remaining_tax_allowance
        final_taxable_gain == Max(0, final_capital_gain - remaining_tax_allowance)
        final_tax == MulRate(final_taxable_gain, c.capital_gains_tax)
        final_value_after_tax == final_value - final_tax
        total_costs == (final_without_costs(c) - final_value_after_tax) - final_tax
    IN  [name |-> "ETF-Sparplan (privat)",
         total_paid |-> total_paid,
         total_value |-> final_value_after_tax,
         net_return |-> net_annual_return,
         tax_benefit |-> 0,
         yearly_values |-> st.yearly_values,
         gross_paid |-> total_paid,
         state_allowances |-> 0,
         tax_savings |-> 0,
         total_costs |-> total_costs,
         gross_return |-> c.annual_return,
         gross_value |-> final_value]

\* ETFCalculator._calculate_with_rebalancing
calculate_with_rebalancing(c, net_annual_return, total_paid) ==
    IF c.rebalancing_count >= c.years
    THEN [error |-> "ValueError"]
    ELSE rebalancing_result(rebalancing_simulation(c, net_annual_return),
                            c, net_annual_return, total_paid)

\* The accumulation branch of ETFCalculator.calculate (lines 71-103): the
\* pre-fee terminal balance, the yearly series and the contributions, or the
\* result of the rebalancing variant, which returns from calculate at once.
etf_accumulate(c, net_annual_return) ==
    IF c.contribution_dynamics > 0
    THEN LET d == calculate_with_contribution_dynamics(
                      c.monthly_contribution, c.contribution_dynamics, c.years,
                      net_annual_return, c.initial_investment)
         IN  [returned |-> FALSE,
              final_value |-> d.total_capital,
              yearly_values |-> d.yearly_values,
              total_paid |-> d.total_contributions]
    ELSE LET total_paid == c.monthly_contribution * MonthsPerYear * c.years
                           + c.initial_investment
         IN  IF c.rebalancing_count > 0
             THEN [returned |-> TRUE,
                   result |-> calculate_with_rebalancing(c, net_annual_return, total_paid)]
             ELSE LET ci == compound_interest(c.monthly_contribution,
                                              net_annual_return, c.years)
                      initial_growth ==
                          IF c.initial_investment > 0
                          THEN GrowYears(c.initial_investment
                                           - MulRate(c.initial_investment, c.spread),
                                         net_annual_return, c.years)
                          ELSE 0
                  IN  [returned |-> FALSE,
                       final_value |-> ci.balance + initial_growth,
                       yearly_values |-> ci.yearly_values,
                       total_paid |-> total_paid]

\* Order fees: one per monthly execution plus one for the lump sum (lines 105-108).
etf_order_fees(c) ==
    c.order_fee * MonthsPerYear * c.years
    + (IF c.initial_investment > 0 THEN c.order_fee ELSE 0)

\* Mutant of etf_depot_fees: the depot fee is charged once, not every year.
etf_depot_fees_charged_once(c) == c.depot_fee_yearly

\* Depot fees (line 111).
etf_depot_fees(c) == c.depot_fee_yearly * c.years

\* Mutant of etf_tax_on_gains: the allowances of all years are added up.
etf_tax_on_gains_summed_allowance(c, final_value, total_paid) ==
    LET capital_gain == final_value - total_paid
        total_tax_allowance == c.tax_allowance * c.years
        taxable_gain == Max(0, capital_gain - total_tax_allowance)
    IN  MulRate(taxable_gain, c.capital_gains_tax)

\* Tax on the capital gain after the allowance of the sale year (lines 116-125).
etf_tax_on_gains(c, final_value, total_paid) ==
    LET capital_gain == final_value - total_paid
        total_tax_allowance == c.tax_allowance
        taxable_gain == Max(0, capital_gain - total_tax_allowance)
    IN  MulRate(taxable_gain, c.capital_gains_tax)

\* Mutant of etf_net_annual_return: the spread is left out of the cost drag.
etf_net_annual_return_without_spread(c) == c.annual_return - c.ter

\* Net return after TER and spread (line 69).
etf_net_annual_return(c) == c.annual_return - c.ter - c.spread

\* ETFCalculator.calculate
ETFCalculator_calculate(c) ==
    LET net_annual_return == etf_net_annual_return(c)
        a == etf_accumulate(c, net_annual_return)
    IN  IF a.returned
        THEN a.result
        ELSE LET final_value == a.final_value - etf_order_fees(c) - etf_depot_fees(c)
                 tax_on_gains == etf_tax_on_gains(c, final_value, a.total_paid)
                 final_value_after_tax == final_value - tax_on_gains
                 total_costs == final_without_costs(c) - final_value
             IN  [name |-> "ETF-Sparplan (privat)",
                  total_paid |-> a.total_paid,
                  total_value |-> final_value_after_tax,
                  net_return |-> net_annual_return,
                  tax_benefit |-> 0,
                  yearly_values |-> a.yearly_values,
                  gross_paid |-> a.total_paid,
                  state_allowances |-> 0,
                  tax_savings |-> 0,
                  total_costs |-> total_costs,
                  gross_return |-> c.annual_return,
                  gross_value |-> final_value]

-----------------------------------------------------------------------------
(* basisrente_calculator.py *)

\* The terminal balance, yearly series and contract contributions (lines 62-88).
basisrente_accumulate(c, net_annual_return) ==
    IF c.contribution_dynamics > 0
    THEN LET d == calculate_with_contribution_dynamics(
                      c.monthly_contribution, c.contribution_dynamics, c.years,
                      net_annual_return, c.initial_investment)
         IN  [final_value_gross |-> d.total_capital,
              yearly_values |-> d.yearly_values,
              contract_contributions |-> d.total_contributions]
    ELSE LET ci == compound_interest(c.monthly_contribution, net_annual_return, c.years)
             initial_growth ==
                 IF c.initial_investment > 0
                 THEN GrowYears(c.initial_investment, net_annual_return, c.years)
                 ELSE 0
         IN  [final_value_gross |-> ci.balance + initial_growth,
              yearly_values |-> ci.yearly_values,
              contract_contributions |->
                  c.monthly_contribution * MonthsPerYear * c.years
                  + c.initial_investment]

\* A variant of the refund in which every contribution is fully deductible.
basisrente_tax_savings_fully_deductible(c, contract_contributions) ==
    MulRate(contract_contributions, c.tax_rate)

\* Tax refund of the accumulation phase (line 91):
\* contract_contributions * deductible_percentage * tax_rate.
basisrente_tax_savings(c, contract_contributions) ==
    MulRate(MulRate(contract_contributions, c.deductible_percentage), c.tax_rate)

\* BasisrenteCalculator.calculate
BasisrenteCalculator_calculate(c) ==
    LET net_annual_return == c.annual_return - c.effective_costs
        a == basisrente_accumulate(c, net_annual_return)
        tax_savings == basisrente_tax_savings(c, a.contract_contributions)
        gross_paid == a.contract_contributions
        total_costs == final_without_costs(c) - a.final_value_gross + c.honorar_fee
        tax_on_payout == MulRate(a.final_value_gross, c.tax_rate_retirement)
        final_value_after_tax == a.final_value_gross - tax_on_payout + tax_savings
        net_investment_amount == a.contract_contributions - tax_savings
    IN  [name |-> "Basisrente (Ruerup)",
         total_paid |-> net_investment_amount,
         total_value |-> final_value_after_tax,
         net_return |-> net_annual_return,
         tax_benefit |-> tax_savings,
         yearly_values |-> a.yearly_values,
         gross_paid |-> gross_paid,
         state_allowances |-> 0,
         tax_savings |-> tax_savings,
         total_costs |-> total_costs,
         gross_return |-> c.annual_return,
         gross_value |-> a.final_value_gross]

-----------------------------------------------------------------------------
(* riester_calculator.py *)

\* The floor of the net return, 0.001 (line 61).
RiesterMinReturn == 1

\* Net return after effective costs, floored (lines 57-61).
riester_net_return(c) ==
    LET net_annual_return == c.annual_return - c.effective_costs
    IN  IF net_annual_return < 0 THEN RiesterMinReturn ELSE net_annual_return

\* A variant that leaves the children's allowance out of the yearly allowance.
riester_yearly_allowance_without_children(c) == c.basic_allowance

\* The state allowances of one year (line 67).
riester_yearly_allowance(c) == c.basic_allowance + c.children_allowance

\* The tax saving of the deduction of one year (lines 70-71).
riester_yearly_tax_benefit(c) ==
    LET yearly_contribution == c.monthly_contribution * MonthsPerYear
        deductible_amount == Min(yearly_contribution, c.max_deductible)
    IN  MulRate(deductible_amount, c.tax_rate)

\* A variant of the additional benefit without the lower limit of 0.
riester_additional_tax_benefit_unclamped(c) ==
    riester_yearly_tax_benefit(c) - riester_yearly_allowance(c)

\* The additional tax benefit of the Guenstigerpruefung, per year (line 75).
riester_additional_tax_benefit(c) ==
    Max(0, riester_yearly_tax_benefit(c) - riester_yearly_allowance(c))

\* What left the saver's pocket (line 131).
riester_net_investment_amount(gross_paid, total_allowances, total_additional_tax) ==
    gross_paid - total_additional_tax

\* RiesterCalculator.calculate
RiesterCalculator_calculate(c) ==
    LET net_annual_return == riester_net_return(c)
        yearly_contribution == c.monthly_contribution * MonthsPerYear
        yearly_allowance == riester_yearly_allowance(c)
        additional_tax_benefit == riester_additional_tax_benefit(c)
        monthly_contribution_with_allowance ==
            (yearly_contribution + yearly_allowance) \div MonthsPerYear
        ci == compound_interest(monthly_contribution_with_allowance,
                                net_annual_return, c.years)
        final_value_gross == ci.balance
        gross_paid == yearly_contribution * c.years
        total_allowances == yearly_allowance * c.years
        total_additional_tax == additional_tax_benefit * c.years
        no_costs == compound_interest(monthly_contribution_with_allowance,
                                      c.annual_return, c.years).balance
        total_costs == no_costs - final_value_gross
        tax_on_payout == MulRate(final_value_gross, c.tax_rate_retirement)
        final_value_after_tax == final_value_gross - tax_on_payout + total_additional_tax
        total_tax_benefit == total_allowances + total_additional_tax
    IN  [name |-> "Riester-Rente",
         total_paid |-> riester_net_investment_amount(gross_paid, total_allowances,
                                                      total_additional_tax),
         total_value |-> final_value_after_tax,
         net_return |-> net_annual_return,
         tax_benefit |-> total_tax_benefit,
         yearly_values |-> ci.yearly_values,
         gross_paid |-> gross_paid,
         state_allowances |-> total_allowances,
         tax_savings |-> total_additional_tax,
         total_costs |-> total_costs,
         gross_return |-> c.annual_return,
         gross_value |-> final_value_gross]

-----------------------------------------------------------------------------
(* privatrente_calculator.py *)

\* ERTRAGSANTEIL_TABLE, in percent, keyed by the age at payout.
ERTRAGSANTEIL_TABLE ==
    [age \in 50 .. 70 |->
        CASE age = 50 -> 30 [] age = 51 -> 29 [] age = 52 -> 28 [] age = 53 -> 27
          [] age = 54 -> 27 [] age = 55 -> 26 [] age = 56 -> 25 [] age = 57 -> 25
          [] age = 58 -> 24 [] age = 59 -> 23 [] age = 60 -> 22 [] age = 61 -> 22
          [] age = 62 -> 21 [] age = 63 -> 20 [] age = 64 -> 19 [] age = 65 -> 18
          [] age = 66 -> 18 [] age = 67 -> 17 [] age = 68 -> 16 [] age = 69 -> 16
          [] OTHER -> 15]

\* A variant that looks the age up without the limits of 50 and 70.
get_ertragsanteil_unclamped(age) ==
    IF age \in DOMAIN ERTRAGSANTEIL_TABLE THEN ERTRAGSANTEIL_TABLE[age] ELSE 18

\* PrivatrenteCalculator._get_ertragsanteil
get_ertragsanteil(age) ==
    IF age < 50 THEN 30
    ELSE IF age > 70 THEN 15
    ELSE IF age \in DOMAIN ERTRAGSANTEIL_TABLE THEN ERTRAGSANTEIL_TABLE[age] ELSE 18

\* Tax at payout (lines 106-124).
privatrente_tax_on_payout(c, final_value_gross, contract_contributions) ==
    LET capital_gain == final_value_gross - contract_contributions
    IN  IF c.payout_option = "lump_sum"
        THEN MulRate(MulRate(capital_gain, Scale \div 2), c.tax_rate_retirement)
        ELSE MulRate(MulRate(final_value_gross,
                             (get_ertragsanteil(c.retirement_age) * Scale) \div 100),
                     c.tax_rate_retirement)

\* PrivatrenteCalculator.calculate
PrivatrenteCalculator_calculate(c) ==
    LET net_annual_return == c.annual_return - c.effective_costs
        ci == compound_interest(c.monthly_contribution, net_annual_return, c.years)
        initial_growth ==
            IF c.initial_investment > 0
            THEN GrowYears(c.initial_investment, net_annual_return, c.years)
            ELSE 0
        final_value_gross == ci.balance + initial_growth
        contract_contributions ==
            c.monthly_contribution * MonthsPerYear * c.years + c.initial_investment
        gross_paid == contract_contributions
        total_costs == final_without_costs(c) - final_value_gross + c.honorar_fee
        tax_on_payout ==
            privatrente_tax_on_payout(c, final_value_gross, contract_contributions)
        final_value_after_tax == final_value_gross - tax_on_payout
    IN  [name |-> IF c.payout_option = "lump_sum"
                  THEN "Privatrente (Einmalauszahlung)"
                  ELSE "Privatrente (Verrentung)",
         total_paid |-> contract_contributions,
         total_value |-> final_value_after_tax,
         net_return |-> net_annual_return,
         tax_benefit |-> 0,
         yearly_values |-> ci.yearly_values,
         gross_paid |-> gross_paid,
         state_allowances |-> 0,
         tax_savings |-> 0,
         total_costs |-> total_costs,
         gross_return |-> c.annual_return,
         gross_value |-> final_value_gross]

-----------------------------------------------------------------------------
(* withdrawal_strategy.py *)

\* The withdrawal rate of the 4% rule, 0.04 (line 53).
FourPercent == 40

\* success_rate (lines 80-83 and 196-199).
success_rate(capital_depleted_year, withdrawal_years) ==
    IF capital_depleted_year = 0
    THEN Scale
    ELSE (capital_depleted_year * Scale) \div withdrawal_years

\* The year in which four_percent_rule records the depletion it finds at the
\* start of the iteration for `year` (line 65).
four_percent_depleted_year(year) == year - 1

\* The loop over year = 1 .. withdrawal_years of four_percent_rule.
RECURSIVE four_percent_loop(_, _, _)
four_percent_loop(st, year, p) ==
    IF year > p.withdrawal_years
    THEN st
    ELSE LET annual_withdrawal ==
                 IF p.with_inflation_adjustment /\ year > 1
                 THEN st.annual_withdrawal + MulRate(st.annual_withdrawal, p.annual_inflation)
                 ELSE st.annual_withdrawal
         IN  IF st.current_capital <= 0
             THEN four_percent_loop(
                      [st EXCEPT !.annual_withdrawal = annual_withdrawal,
                                 !.capital_depleted_year =
                                      IF @ = 0 THEN four_percent_depleted_year(year) ELSE @,
                                 !.yearly_withdrawals = Append(@, <<year, 0, 0>>)],
                      year + 1, p)
             ELSE LET actual_withdrawal == Min(annual_withdrawal, st.current_capital)
                      left == st.current_capital - actual_withdrawal
                      current_capital == left + MulRate(left, p.annual_return)
                  IN  four_percent_loop(
                          [st EXCEPT !.annual_withdrawal = annual_withdrawal,
                                     !.current_capital = current_capital,
                                     !.total_withdrawals = @ + actual_withdrawal,
                                     !.yearly_withdrawals =
                                          Append(@, <<year, actual_withdrawal,
                                                      current_capital>>)],
                          year + 1, p)

\* four_percent_rule
four_percent_rule(p) ==
    LET st == four_percent_loop(
                  [current_capital |-> p.initial_capital,
                   annual_withdrawal |-> MulRate(p.initial_capital, FourPercent),
                   total_withdrawals |-> 0,
                   capital_depleted_year |-> 0,
                   yearly_withdrawals |-> <<>>], 1, p)
    IN  IF p.withdrawal_years = 0
        THEN [error |-> "ZeroDivisionError"]
        ELSE [strategy_name |-> "4%-Regel (Trinity Study)",
              initial_capital |-> p.initial_capital,
              total_withdrawals |-> st.total_withdrawals,
              remaining_capital |-> Max(0, st.current_capital),
              yearly_withdrawals |-> st.yearly_withdrawals,
              avg_monthly_withdrawal |->
                  (st.total_withdrawals \div p.withdrawal_years) \div MonthsPerYear,
              capital_depleted_year |-> st.capital_depleted_year,
              success_rate |-> success_rate(st.capital_depleted_year, p.withdrawal_years)]

\* The loop over year = 1 .. withdrawal_years of dynamic_percentage_withdrawal.
RECURSIVE dynamic_loop(_, _, _)
dynamic_loop(st, year, p) ==
    IF year > p.withdrawal_years
    THEN st
    ELSE LET annual_withdrawal == MulRate(st.current_capital, p.withdrawal_percentage)
             left == st.current_capital - annual_withdrawal
             current_capital == left + MulRate(left, p.annual_return)
         IN  dynamic_loop(
                 [st EXCEPT !.current_capital = current_capital,
                            !.total_withdrawals = @ + annual_withdrawal,
                            !.yearly_withdrawals =
                                 Append(@, <<year, annual_withdrawal, current_capital>>)],
                 year + 1, p)

\* dynamic_percentage_withdrawal
dynamic_percentage_withdrawal(p) ==
    LET st == dynamic_loop([current_capital |-> p.initial_capital,
                            total_withdrawals |-> 0,
                            yearly_withdrawals |-> <<>>], 1, p)
    IN  IF p.withdrawal_years = 0
        THEN [error |-> "ZeroDivisionError"]
        ELSE [strategy_name |-> "Dynamische Entnahme",
              initial_capital |-> p.initial_capital,
              total_withdrawals |-> st.total_withdrawals,
              remaining_capital |-> st.current_capital,
              yearly_withdrawals |-> st.yearly_withdrawals,
              avg_monthly_withdrawal |->
                  (st.total_withdrawals \div p.withdrawal_years) \div MonthsPerYear,
              capital_depleted_year |-> 0,
              success_rate |-> Scale]

\* Whether the yearly loop of fixed_monthly_pension goes on after the month
\* loop of a year (lines 192-193: it breaks once the capital is used up).
fixed_pension_continues(current_capital) == current_capital > 0

\* The loop over month = 0 .. 11 of one year of fixed_monthly_pension.
RECURSIVE fixed_pension_months(_, _, _, _)
fixed_pension_months(st, month, year, p) ==
    IF month >= MonthsPerYear
    THEN st
    ELSE IF st.current_capital <= 0
    THEN [st EXCEPT !.capital_depleted_year = IF @ = 0 THEN year ELSE @]
    ELSE LET actual_monthly_withdrawal == Min(p.monthly_pension, st.current_capital)
             left == st.current_capital - actual_monthly_withdrawal
         IN  fixed_pension_months(
                 [st EXCEPT !.current_capital = MonthlyGrowth(left, p.annual_return),
                            !.year_withdrawal = @ + actual_monthly_withdrawal],
                 month + 1, year, p)

\* The loop over year = 1 .. withdrawal_years of fixed_monthly_pension.
RECURSIVE fixed_pension_loop(_, _, _)
fixed_pension_loop(st, year, p) ==
    IF year > p.withdrawal_years
    THEN st
    ELSE LET m == fixed_pension_months([st EXCEPT !.year_withdrawal = 0], 0, year, p)
             s == [m EXCEPT !.total_withdrawals = @ + m.year_withdrawal,
                            !.yearly_withdrawals =
                                 Append(@, <<year, m.year_withdrawal, m.current_capital>>)]
         IN  IF fixed_pension_continues(s.current_capital)
             THEN fixed_pension_loop(s, year + 1, p)
             ELSE s

\* fixed_monthly_pension
fixed_monthly_pension(p) ==
    LET st == fixed_pension_loop([current_capital |-> p.initial_capital,
                                  year_withdrawal |-> 0,
                                  total_withdrawals |-> 0,
                                  capital_depleted_year |-> 0,
                                  yearly_withdrawals |-> <<>>], 1, p)
    IN  [strategy_name |-> "Feste Rente",
         initial_capital |-> p.initial_capital,
         total_withdrawals |-> st.total_withdrawals,
         remaining_capital |-> Max(0, st.current_capital),
         yearly_withdrawals |-> st.yearly_withdrawals,
         avg_monthly_withdrawal |-> p.monthly_pension,
         capital_depleted_year |-> st.capital_depleted_year,
         success_rate |-> success_rate(st.capital_depleted_year, p.withdrawal_years)]

\* hybrid_withdrawal.  Its second parameter is named fixed_monthly_pension
\* (line 215), so inside the body that name is the number passed in and not
\* the function of the module: the call at line 239 applies a number and
\* raises TypeError before anything of the result is built.
hybrid_withdrawal(p) ==
    LET reserve_capital == MulRate(p.initial_capital, p.capital_reserve_percentage)
        withdrawal_capital == p.initial_capital - reserve_capital
    IN  [error |-> "TypeError"]

-----------------------------------------------------------------------------
(* Inputs of the product calculators *)

\* Longest horizon, in years, and largest rebalancing count that are tried.
MaxYears == 3
MaxRebalancing == 3

Monthly == {0, 1000}
Lump == {0, 10000}
Returns == {0, 120}

ETFConfigs ==
    [monthly_contribution : Monthly, years : 1 .. MaxYears, annual_return : Returns,
     tax_rate : {420}, ter : {0, 12}, capital_gains_tax : {250},
     tax_allowance : {0, 1000}, order_fee : {0, 10}, depot_fee_yearly : {0, 50},
     spread : {0, 12}, initial_investment : Lump,
     rebalancing_count : 0 .. MaxRebalancing, contribution_dynamics : {0, 100}]

BasisrenteConfigs ==
    [monthly_contribution : Monthly, years : 1 .. MaxYears, annual_return : Returns,
     tax_rate : {0, 420}, deductible_percentage : {0, 500, 1000},
     tax_rate_retirement : {300}, effective_costs : {0, 12}, honorar_fee : {0, 500},
     initial_investment : Lump, contribution_dynamics : {0, 100}]

RiesterConfigs ==
    [monthly_contribution : {0, 100, 1000}, years : 1 .. MaxYears,
     annual_return : {0, 30}, tax_rate : {0, 420}, tax_rate_retirement : {300},
     basic_allowance : {0, 180}, children_allowance : {0, 600},
     effective_costs : {0, 20, 40}, max_deductible : {2100}]

PrivatrenteConfigs ==
    [monthly_contribution : Monthly, years : 1 .. MaxYears, annual_return : Returns,
     tax_rate : {420}, tax_rate_retirement : {300}, effective_costs : {0, 18},
     honorar_fee : {0, 500}, initial_investment : Lump,
     payout_option : {"annuity", "lump_sum"}, retirement_age : {45, 50, 67, 75}]

Calculators == {"ETF", "Basisrente", "Riester", "Privatrente"}

Configs(k) ==
    CASE k = "ETF" -> ETFConfigs
      [] k = "Basisrente" -> BasisrenteConfigs
      [] k = "Riester" -> RiesterConfigs
      [] k = "Privatrente" -> PrivatrenteConfigs

\* calculate() of the calculator k constructed with the configuration c.
Calculate(k, c) ==
    CASE k = "ETF" -> ETFCalculator_calculate(c)
      [] k = "Basisrente" -> BasisrenteCalculator_calculate(c)
      [] k = "Riester" -> RiesterCalculator_calculate(c)
      [] k = "Privatrente" -> PrivatrenteCalculator_calculate(c)

IsError(r) == "error" \in DOMAIN r

-----------------------------------------------------------------------------
(* The product calculators as a state machine: a calculator is constructed  *)
(* with a configuration (Init) and calculate() is called on it once.         *)

Init ==
    /\ calc \in Calculators
    /\ cfg \in Configs(calc)
    /\ pc = "constructed"
    /\ res = [none |-> TRUE]

Finish(r) ==
    /\ res' = r
    /\ pc' = IF IsError(r) THEN "raised" ELSE "returned"
    /\ UNCHANGED <<calc, cfg>>

ETFCalculate ==
    /\ pc = "constructed"
    /\ calc = "ETF"
    /\ Finish(ETFCalculator_calculate(cfg))

BasisrenteCalculate ==
    /\ pc = "constructed"
    /\ calc = "Basisrente"
    /\ Finish(BasisrenteCalculator_calculate(cfg))

RiesterCalculate ==
    /\ pc = "constructed"
    /\ calc = "Riester"
    /\ Finish(RiesterCalculator_calculate(cfg))

PrivatrenteCalculate ==
    /\ pc = "constructed"
    /\ calc = "Privatrente"
    /\ Finish(PrivatrenteCalculator_calculate(cfg))

Next ==
    \/ ETFCalculate
    \/ BasisrenteCalculate
    \/ RiesterCalculate
    \/ PrivatrenteCalculate

Spec == Init /\ [][Next]_vars

-----------------------------------------------------------------------------
(* Inputs of the withdrawal strategies *)

\* Longest withdrawal horizon, in years, that is tried.
MaxWithdrawalYears == 4

FourPercentInputs ==
    [initial_capital : {0, 1000, 100000}, withdrawal_years : 0 .. MaxWithdrawalYears,
     annual_return : {-500, 0, 50}, annual_inflation : {0, 20, 4000},
     with_inflation_adjustment : BOOLEAN]

DynamicInputs ==
    [initial_capital : {0, 1000, 100000}, withdrawal_percentage : {0, 40, 1000, 1500},
     withdrawal_years : 0 .. MaxWithdrawalYears, annual_return : {-500, 0, 50}]

FixedPensionInputs ==
    [initial_capital : {0, 12000, 24000, 100000}, monthly_pension : {0, 1000, 2000},
     withdrawal_years : 0 .. MaxWithdrawalYears, annual_return : {-480, 0, 40}]

HybridInputs ==
    [initial_capital : {0, 100000}, fixed_monthly_pension : {0, 1000},
     capital_reserve_percentage : {0, 200}, withdrawal_years : 0 .. MaxWithdrawalYears,
     annual_return : {0, 40}]

Strategies == {"four_percent_rule", "dynamic_percentage_withdrawal",
               "fixed_monthly_pension", "hybrid_withdrawal"}

StrategyInputs(k) ==
    CASE k = "four_percent_rule" -> FourPercentInputs
      [] k = "dynamic_percentage_withdrawal" -> DynamicInputs
      [] k = "fixed_monthly_pension" -> FixedPensionInputs
      [] k = "hybrid_withdrawal" -> HybridInputs

-----------------------------------------------------------------------------
(* The withdrawal strategies as a state machine: a strategy function is     *)
(* called once with its arguments (Init) and returns or raises.              *)

InitW ==
    /\ calc \in Strategies
    /\ cfg \in StrategyInputs(calc)
    /\ pc = "called"
    /\ res = [none |-> TRUE]

FourPercentRule ==
    /\ pc = "called"
    /\ calc = "four_percent_rule"
    /\ Finish(four_percent_rule(cfg))

DynamicPercentageWithdrawal ==
    /\ pc = "called"
    /\ calc = "dynamic_percentage_withdrawal"
    /\ Finish(dynamic_percentage_withdrawal(cfg))

FixedMonthlyPension ==
    /\ pc = "called"
    /\ calc = "fixed_monthly_pension"
    /\ Finish(fixed_monthly_pension(cfg))

HybridWithdrawal ==
    /\ pc = "called"
    /\ calc = "hybrid_withdrawal"
    /\ Finish(hybrid_withdrawal(cfg))

NextW ==
    \/ FourPercentRule
    \/ DynamicPercentageWithdrawal
    \/ FixedMonthlyPension
    \/ HybridWithdrawal

SpecW == InitW /\ [][NextW]_vars

-----------------------------------------------------------------------------
(* Claims about ETFCalculator.calculate and the rebalancing variant *)

Returned == pc = "returned"

\* C1: for years >= 1, ETFCalculator.calculate() raises ValueError and returns
\* no result for every configuration with rebalancing_count >= years, whatever
\* the other parameters are (contribution_dynamics > 0 included).
C1_RebalancingCountRejected ==
    (/\ calc = "ETF"
     /\ pc # "constructed"
     /\ cfg.years >= 1
     /\ cfg.rebalancing_count >= cfg.years)
        => (pc = "raised" /\ res = [error |-> "ValueError"])

\* C2: for every ETF configuration with 0 < rebalancing_count < years,
\* calculate() returns the result of the year-by-year rebalancing simulation:
\* its gross_value and total_value are those of the simulation, with the taxes
\* and spread costs of the events in them, for every contribution_dynamics.
C2_RebalancingSimulated ==
    (/\ calc = "ETF"
     /\ pc # "constructed"
     /\ 0 < cfg.rebalancing_count
     /\ cfg.rebalancing_count < cfg.years)
        => /\ Returned
           /\ LET sim == calculate_with_rebalancing(cfg, etf_net_annual_return(cfg),
                                                    res.total_paid)
              IN  /\ res.gross_value = sim.gross_value
                  /\ res.total_value = sim.total_value

-----------------------------------------------------------------------------
(* Claims about the result record of the four product calculators *)

\* The balance at the end of the horizon, before the ETF's order and depot
\* fees leave it: gross_value with those fees added back.
EndBalance(k, c, r) ==
    IF k = "ETF"
    THEN r.gross_value + etf_order_fees(c) + etf_depot_fees(c)
         + (IF c.contribution_dynamics = 0 /\ c.rebalancing_count > 0
            THEN c.order_fee * Len(rebalancing_years(c)) ELSE 0)
    ELSE r.gross_value

\* C3: for every product calculator and every valid configuration, yearly_values
\* has exactly `years` entries, each a (year_index, balance) pair, the indices
\* being 1, 2, ..., years in this order, and the balance of the last entry is
\* the compounded balance at the end of the horizon.
C3_YearlyValuesShape ==
    Returned =>
        /\ Len(res.yearly_values) = cfg.years
        /\ \A i \in 1 .. Len(res.yearly_values) :
               /\ DOMAIN res.yearly_values[i] = 1 .. 2
               /\ res.yearly_values[i][1] = i
        /\ res.yearly_values[cfg.years][2] = EndBalance(calc, cfg, res)

\* C4: in the ETF calculation without rebalancing, total_value = gross_value -
\* capital_gains_tax * max(0, gross_value - total_paid - tax_allowance): the
\* taxable gain is never negative, the allowance is applied once whatever
\* `years` is, and the result does not depend on the personal tax_rate.
C4_ETFTaxOnGain ==
    (Returned /\ calc = "ETF" /\ cfg.rebalancing_count = 0) =>
        LET taxable_gain ==
                Max(0, res.gross_value - res.total_paid - cfg.tax_allowance)
        IN  /\ taxable_gain >= 0
            /\ res.total_value =
                   res.gross_value - MulRate(taxable_gain, cfg.capital_gains_tax)
            /\ res.total_value <= res.gross_value
            /\ \A t \in {0, 250, 420} :
                   ETFCalculator_calculate([cfg EXCEPT !.tax_rate = t]) = res

\* C4 witness: a run over several years whose gain exceeds the allowance, so
\* that tax is charged, and one allowance (not `years` allowances) is deducted.
C4_Witness ==
    /\ Returned
    /\ calc = "ETF"
    /\ cfg.rebalancing_count = 0
    /\ cfg.years >= 2
    /\ cfg.tax_allowance > 0
    /\ res.gross_value - res.total_paid > cfg.tax_allowance
    /\ res.gross_value - res.total_paid < cfg.tax_allowance * cfg.years
    /\ res.total_value < res.gross_value

\* C5: for all four product calculators, total_paid equals net_investment =
\* gross_paid - state_allowances - tax_savings.
C5_TotalPaidIsNetInvestment ==
    Returned => res.total_paid = net_investment(res)

-----------------------------------------------------------------------------
(* Claims that compare two runs of a calculator *)

\* The configuration c with the parameter f raised by d.
Raise(c, f, d) == [c EXCEPT ![f] = @ + d]

\* The cost ratios that enter the net return, the fees charged in currency
\* units on the balance, and the one-time advisory fee, per calculator.
CostRates(k) == IF k = "ETF" THEN {"ter", "spread"} ELSE {"effective_costs"}

Fees(k) == IF k = "ETF" THEN {"order_fee", "depot_fee_yearly"} ELSE {}

OneTimeFees(k) == IF k \in {"Basisrente", "Privatrente"} THEN {"honorar_fee"} ELSE {}

\* The increases that are tried: of a rate, in thousandths, and of a fee.
RateSteps == {12, 60}

FeeSteps == {10, 100}

Steps(f) == IF f \in {"ter", "spread", "effective_costs"} THEN RateSteps ELSE FeeSteps

Unfloored(k, c, d) ==
    k = "Riester" => c.annual_return - (c.effective_costs + d) >= 0

StaticRun(k, c) == Calculate(k, [c EXCEPT !.contribution_dynamics = 0])

\* C7: for ETFCalculator and BasisrenteCalculator and any valid configuration
\* (years >= 1), the run with contribution_dynamics > 0 reports strictly greater
\* total_paid / gross_paid and total_value than the static run.
C7_DynamicsStrictlyGreater ==
    (/\ Returned
     /\ calc \in {"ETF", "Basisrente"}
     /\ cfg.years >= 1
     /\ cfg.contribution_dynamics > 0
     /\ ~IsError(StaticRun(calc, cfg)))
        => LET static == StaticRun(calc, cfg)
           IN  /\ res.total_paid > static.total_paid
               /\ res.gross_paid > static.gross_paid
               /\ res.total_value > static.total_value

\* C7 as amended: the same, for years >= 2 and monthly_contribution > 0 (the
\* contribution first grows after the twelfth month, and a contribution of 0
\* does not grow).
C7_DynamicsAmended ==
    (/\ Returned
     /\ calc \in {"ETF", "Basisrente"}
     /\ cfg.years >= 2
     /\ cfg.monthly_contribution > 0
     /\ cfg.contribution_dynamics > 0
     /\ ~IsError(StaticRun(calc, cfg)))
        => LET static == StaticRun(calc, cfg)
           IN  /\ res.total_paid > static.total_paid
               /\ res.gross_paid > static.gross_paid
               /\ res.total_value > static.total_value

\* C7 witness: a dynamic ETF run over several years with contributions, whose
\* static counterpart returns a result.
C7_Witness ==
    /\ Returned
    /\ calc = "ETF"
    /\ cfg.years >= 2
    /\ cfg.monthly_contribution > 0
    /\ cfg.contribution_dynamics > 0
    /\ cfg.initial_investment > 0
    /\ ~IsError(StaticRun(calc, cfg))
    /\ res.total_paid > StaticRun(calc, cfg).total_paid

\* The configuration c with every cost parameter set to 0.
NoCosts(k, c) ==
    IF k = "ETF"
    THEN [c EXCEPT !.ter = 0, !.spread = 0, !.order_fee = 0, !.depot_fee_yearly = 0]
    ELSE IF k = "Riester"
    THEN [c EXCEPT !.effective_costs = 0]
    ELSE [c EXCEPT !.effective_costs = 0, !.honorar_fee = 0]

\* V0: the terminal value of the contribution stream of c, compounded as the
\* run compounds it, at the gross return: no costs, and no tax taken out of
\* the balance on the way.
CostFreeValue(k, c) ==
    LET n == NoCosts(k, c)
    IN  Calculate(k, IF k = "ETF" THEN [n EXCEPT !.capital_gains_tax = 0] ELSE n).gross_value

\* C8: for every calculator and configuration, total_costs = V0 - gross_value
\* (+ honorar_fee), V0 being the terminal value of the same contribution stream
\* compounded the same way at the gross return without costs; hence total_costs
\* = 0 when every cost parameter is 0, and total_costs >= 0 (the cost
\* parameters tried are all non-negative).
C8_CounterfactualCosts ==
    Returned =>
        LET honorar == IF calc \in {"Basisrente", "Privatrente"}
                       THEN cfg.honorar_fee ELSE 0
        IN  /\ res.total_costs = CostFreeValue(calc, cfg) - res.gross_value + honorar
            /\ (cfg = NoCosts(calc, cfg)) => res.total_costs = 0
            /\ res.total_costs >= 0

-----------------------------------------------------------------------------
(* Claims about the withdrawal strategies *)

\* The years of a yearly series at whose end the capital is used up.
DepletedYears(yearly_withdrawals) ==
    { k \in 1 .. Len(yearly_withdrawals) : yearly_withdrawals[k][3] <= 0 }

\* The first of them, 0 when there is none.
FirstDepletedYear(yearly_withdrawals) ==
    LET D == DepletedYears(yearly_withdrawals)
    IN  IF D = {} THEN 0 ELSE CHOOSE k \in D : \A j \in D : k <= j

\* C9: four_percent_rule: capital_depleted_year is the smallest year k in
\* 1..withdrawal_years at whose end the capital is <= 0, and is 0 (with
\* success_rate = 1.0) only if the capital is > 0 after every year; otherwise
\* success_rate = capital_depleted_year / withdrawal_years.  The yearly series
\* has exactly withdrawal_years entries, (year, 0, 0) after the depletion.
C9_FourPercentDepletion ==
    (Returned /\ calc = "four_percent_rule") =>
        LET yw == res.yearly_withdrawals
            first == FirstDepletedYear(yw)
        IN  /\ Len(yw) = cfg.withdrawal_years
            /\ \A k \in 1 .. Len(yw) :
                   /\ yw[k][1] = k
                   /\ (first # 0 /\ k > first) => yw[k] = <<k, 0, 0>>
            /\ res.capital_depleted_year = first
            /\ res.success_rate =
                   IF first = 0 THEN Scale
                   ELSE (first * Scale) \div cfg.withdrawal_years

\* C10: fixed_monthly_pension: whenever the capital reaches <= 0 in some month
\* of year k (the twelfth included), the simulation stops, the yearly series
\* ends with the entry for year k, capital_depleted_year = k and success_rate
\* = k / withdrawal_years; capital_depleted_year = 0 and success_rate = 1.0
\* only if the capital is > 0 at the end of the configured horizon.
C10_FixedPensionDepletion ==
    (Returned /\ calc = "fixed_monthly_pension" /\ cfg.withdrawal_years >= 1) =>
        LET yw == res.yearly_withdrawals
        IN  /\ \A k \in 1 .. Len(yw) :
                   yw[k][3] <= 0 =>
                       /\ k = Len(yw)
                       /\ res.capital_depleted_year = k
                       /\ res.success_rate = (k * Scale) \div cfg.withdrawal_years
            /\ res.capital_depleted_year = 0 =>
                   /\ res.success_rate = Scale
                   /\ Len(yw) = cfg.withdrawal_years
                   /\ yw[Len(yw)][3] > 0
                   /\ res.remaining_capital > 0

-----------------------------------------------------------------------------
(* Claims about the results of the withdrawal strategies *)

SimulatedStrategies == {"four_percent_rule", "dynamic_percentage_withdrawal",
                        "fixed_monthly_pension"}

\* C11: for four_percent_rule, dynamic_percentage_withdrawal and
\* fixed_monthly_pension, avg_monthly_withdrawal is total_withdrawals divided
\* by 12 * withdrawal_years, the mean over the full nominal horizon, also when
\* the capital is used up before the horizon ends.
C11_AvgMonthlyWithdrawal ==
    (Returned /\ calc \in SimulatedStrategies /\ cfg.withdrawal_years >= 1) =>
        res.avg_monthly_withdrawal =
            res.total_withdrawals \div (MonthsPerYear * cfg.withdrawal_years)

\* The result the hybrid strategy is described to have: the fixed monthly
\* pension run on the part of the capital that is not the reserve.
HybridPensionPart ==
    fixed_monthly_pension(
        [initial_capital |-> cfg.initial_capital
                             - MulRate(cfg.initial_capital,
                                       cfg.capital_reserve_percentage),
         monthly_pension |-> cfg.fixed_monthly_pension,
         withdrawal_years |-> cfg.withdrawal_years,
         annual_return |-> cfg.annual_return])

HybridReserve(year) ==
    GrowYears(MulRate(cfg.initial_capital, cfg.capital_reserve_percentage),
              cfg.annual_return, year)

\* C12: hybrid_withdrawal returns a WithdrawalResult whose remaining_capital is
\* that of fixed_monthly_pension run on initial_capital * (1 - reserve_pct)
\* plus the reserve compounded over the horizon, whose initial_capital is the
\* full capital, and whose yearly capital entries are the capital of the
\* withdrawal part plus the reserve compounded up to that year.
C12_HybridResult ==
    (calc = "hybrid_withdrawal" /\ pc # "called") =>
        /\ Returned
        /\ res.initial_capital = cfg.initial_capital
        /\ res.remaining_capital =
               HybridPensionPart.remaining_capital + HybridReserve(cfg.withdrawal_years)
        /\ Len(res.yearly_withdrawals) = Len(HybridPensionPart.yearly_withdrawals)
        /\ \A i \in 1 .. Len(res.yearly_withdrawals) :
               res.yearly_withdrawals[i][3] =
                   HybridPensionPart.yearly_withdrawals[i][3] + HybridReserve(i)

\* The capital before the withdrawal of the i-th yearly entry.
CapitalBefore(i) ==
    IF i = 1 THEN cfg.initial_capital ELSE res.yearly_withdrawals[i - 1][3]

\* C13: in four_percent_rule, dynamic_percentage_withdrawal and
\* fixed_monthly_pension, for initial_capital >= 0 and annual_return > -1, no
\* withdrawal exceeds the capital available immediately before it, so every
\* recorded capital_after is >= 0 (the yearly strategies are compared with the
\* capital at the start of the year).
C13_NeverOverdraws ==
    (Returned /\ calc \in SimulatedStrategies
     /\ cfg.initial_capital >= 0 /\ cfg.annual_return > -Scale) =>
        \A i \in 1 .. Len(res.yearly_withdrawals) :
            /\ res.yearly_withdrawals[i][3] >= 0
            /\ calc # "fixed_monthly_pension" =>
                   res.yearly_withdrawals[i][2] <= CapitalBefore(i)

\* C14: dynamic_percentage_withdrawal always reports capital_depleted_year = 0
\* and success_rate = 1.0, and its remaining_capital is > 0 for every positive
\* initial capital and every withdrawal_years >= 1, whatever the
\* withdrawal_percentage and annual_return.
C14_DynamicNeverDepleted ==
    (Returned /\ calc = "dynamic_percentage_withdrawal") =>
        /\ res.capital_depleted_year = 0
        /\ res.success_rate = Scale
        /\ (cfg.initial_capital > 0 /\ cfg.withdrawal_years >= 1) =>
               res.remaining_capital > 0

\* C15: no computation fails on a zero divisor: four_percent_rule and
\* dynamic_percentage_withdrawal called with a horizon of 0 years return a
\* result whose average is 0 and do not raise a division-by-zero error.
C15_NoZeroDivision ==
    (calc \in {"four_percent_rule", "dynamic_percentage_withdrawal"}
     /\ cfg.withdrawal_years = 0 /\ pc # "called") =>
        /\ Returned
        /\ res.avg_monthly_withdrawal = 0

-----------------------------------------------------------------------------
(* Claims about the Riester calculator *)

\* C16: Riester: whenever annual_return - effective_costs is <= 0 the net
\* return used and reported is 0.001, otherwise it is
\* annual_return - effective_costs; hence net_return > 0 for every input.
C16_RiesterNetReturnFloor ==
    (Returned /\ calc = "Riester") =>
        /\ res.net_return =
               IF cfg.annual_return - cfg.effective_costs <= 0
               THEN RiesterMinReturn
               ELSE cfg.annual_return - cfg.effective_costs
        /\ res.net_return > 0

\* The yearly allowance A and the yearly tax saving of the deduction T of a
\* Riester configuration, as the claims state them.
AllowanceA(c) == c.basic_allowance + c.children_allowance

DeductionT(c) ==
    MulRate(Min(MonthsPerYear * c.monthly_contribution, c.max_deductible), c.tax_rate)

\* C17: Riester: with A = basic_allowance + children_allowance,
\* tax_benefit = years * (A + max(0, min(12 * monthly_contribution,
\* max_deductible) * tax_rate - A)); so tax_benefit >= years * A >=
\* years * basic_allowance, state_allowances = years * A and tax_savings >= 0.
C17_RiesterTaxBenefit ==
    (Returned /\ calc = "Riester") =>
        /\ res.tax_benefit =
               cfg.years * (AllowanceA(cfg) + Max(0, DeductionT(cfg) - AllowanceA(cfg)))
        /\ res.tax_benefit >= cfg.years * AllowanceA(cfg)
        /\ cfg.years * AllowanceA(cfg) >= cfg.years * cfg.basic_allowance
        /\ res.state_allowances = cfg.years * AllowanceA(cfg)
        /\ res.tax_savings >= 0

\* A Riester run with children whose yearly allowance lies below the tax
\* saving of the deduction, and one whose allowance lies above it.
C17_Witness ==
    /\ Returned
    /\ calc = "Riester"
    /\ cfg.children_allowance > 0
    /\ cfg.basic_allowance > 0
    /\ DeductionT(cfg) > 0
    /\ DeductionT(cfg) < AllowanceA(cfg)
    /\ res.tax_savings = 0
    /\ res.tax_benefit = cfg.years * AllowanceA(cfg)

\* The amounts by which children_allowance is raised.
ChildrenSteps == {300, 600}

\* C18 as stated: of two Riester runs that differ only in children_allowance,
\* the one with the larger children_allowance reports a strictly greater
\* tax_benefit.
C18_ChildrenStrictlyGreater ==
    (Returned /\ calc = "Riester") =>
        \A d \in ChildrenSteps :
            RiesterCalculator_calculate(Raise(cfg, "children_allowance", d)).tax_benefit
                > res.tax_benefit

\* C18, amended: the run with the larger children_allowance never reports a
\* smaller tax_benefit, and it reports a strictly greater one exactly when its
\* yearly allowance exceeds the tax saving of the deduction,
\* min(12 * monthly_contribution, max_deductible) * tax_rate.
C18_ChildrenAmended ==
    (Returned /\ calc = "Riester") =>
        \A d \in ChildrenSteps :
            LET more == Raise(cfg, "children_allowance", d)
                r == RiesterCalculator_calculate(more)
            IN  /\ r.tax_benefit >= res.tax_benefit
                /\ (r.tax_benefit > res.tax_benefit) <=>
                       (AllowanceA(more) > DeductionT(cfg))

\* A run without children whose tax saving exceeds the basic allowance but
\* not the allowance with children: the children raise the benefit.
C18_Witness ==
    /\ Returned
    /\ calc = "Riester"
    /\ cfg.children_allowance = 0
    /\ cfg.basic_allowance > 0
    /\ DeductionT(cfg) > AllowanceA(cfg)
    /\ DeductionT(cfg) < AllowanceA(cfg) + 600
    /\ res.tax_savings > 0
    /\ RiesterCalculator_calculate(Raise(cfg, "children_allowance", 600)).tax_benefit
           > res.tax_benefit

-----------------------------------------------------------------------------
(* Claims about the Basisrente and Privatrente calculators *)

\* C19: Basisrente: tax_savings = gross_paid * deductible_percentage *
\* tax_rate, total_paid = gross_paid - tax_savings, total_value = gross_value
\* less the payout tax gross_value * tax_rate_retirement plus tax_savings;
\* gross_value does not depend on tax_rate or deductible_percentage; and for
\* positive contributions, deductible_percentage > 0 and tax_rate > 0,
\* tax_benefit > 0 and total_paid < gross_paid.
C19_BasisrenteRefund ==
    (Returned /\ calc = "Basisrente") =>
        /\ res.tax_savings =
               MulRate(MulRate(res.gross_paid, cfg.deductible_percentage), cfg.tax_rate)
        /\ res.tax_benefit = res.tax_savings
        /\ res.total_paid = res.gross_paid - res.tax_savings
        /\ res.total_value =
               res.gross_value - MulRate(res.gross_value, cfg.tax_rate_retirement)
               + res.tax_savings
        /\ \A t \in {0, 300, 420}, dp \in {0, 500, 1000} :
               BasisrenteCalculator_calculate(
                   [cfg EXCEPT !.tax_rate = t, !.deductible_percentage = dp]).gross_value
                   = res.gross_value
        /\ (res.gross_paid > 0 /\ cfg.deductible_percentage > 0 /\ cfg.tax_rate > 0) =>
               (res.tax_benefit > 0 /\ res.total_paid < res.gross_paid)

\* A Basisrente run with contributions of which half is deductible.
C19_Witness ==
    /\ Returned
    /\ calc = "Basisrente"
    /\ res.gross_paid > 0
    /\ cfg.tax_rate > 0
    /\ cfg.deductible_percentage > 0
    /\ cfg.deductible_percentage < Scale
    /\ res.tax_benefit > 0
    /\ res.total_paid < res.gross_paid
    /\ res.total_value > res.gross_value - MulRate(res.gross_value, cfg.tax_rate_retirement)

\* The taxable share E of an annuity, in percent, as the claim states it.
TaxableShare(age) ==
    IF age < 50 THEN 30 ELSE IF age > 70 THEN 15 ELSE ERTRAGSANTEIL_TABLE[age]

\* C20: Privatrente: total_paid = gross_paid = 12 * monthly_contribution *
\* years + initial_investment; the payout tax is half of
\* (gross_value - gross_paid) times tax_rate_retirement for "lump_sum" and
\* gross_value * E(retirement_age) / 100 * tax_rate_retirement for "annuity",
\* E being the table value for ages 50..70, 30 below 50 and 15 above 70;
\* total_value = gross_value - payout tax.
C20_PrivatrenteTax ==
    (Returned /\ calc = "Privatrente") =>
        LET payout_tax ==
                IF cfg.payout_option = "lump_sum"
                THEN MulRate(MulRate(res.gross_value - res.gross_paid, Scale \div 2),
                             cfg.tax_rate_retirement)
                ELSE MulRate(MulRate(res.gross_value,
                                     (TaxableShare(cfg.retirement_age) * Scale) \div 100),
                             cfg.tax_rate_retirement)
        IN  /\ res.total_paid = res.gross_paid
            /\ res.gross_paid =
                   MonthsPerYear * cfg.monthly_contribution * cfg.years
                   + cfg.initial_investment
            /\ res.total_value = res.gross_value - payout_tax

\* An annuity paid from an age below the table, taxed on 30% of the balance.
C20_Witness ==
    /\ Returned
    /\ calc = "Privatrente"
    /\ cfg.payout_option = "annuity"
    /\ cfg.retirement_age < 50
    /\ res.gross_value > 0
    /\ res.total_value < res.gross_value
    /\ res.total_value =
           res.gross_value
           - MulRate(MulRate(res.gross_value, 300), cfg.tax_rate_retirement)

-----------------------------------------------------------------------------
(* Claims about the ETF paths, fees and taxes *)

\* The number of rebalancing events of a returned ETF run: the rebalancing
\* branch is entered only without contribution dynamics.
ETFEvents(c) ==
    IF c.contribution_dynamics > 0 THEN 0 ELSE c.rebalancing_count

\* The state is a returned ETF run that went through the rebalancing variant.
RebalancingReturned ==
    /\ Returned
    /\ calc = "ETF"
    /\ cfg.contribution_dynamics <= 0
    /\ cfg.rebalancing_count > 0

\* The local variables of the rebalancing simulation of the current run.
Simulation == rebalancing_simulation(cfg, etf_net_annual_return(cfg))

\* C21: an ETF run with monthly_contribution = 0 and initial_investment = 0
\* (fees >= 0) has, in every path, total_paid = 0 and total_value <= 0:
\* total_value is minus the accrued order and depot fees and no tax is charged.
C21_ZeroContribution ==
    (Returned /\ calc = "ETF"
       /\ cfg.monthly_contribution = 0 /\ cfg.initial_investment = 0) =>
        /\ res.total_paid = 0
        /\ res.total_value <= 0
        /\ res.total_value =
               0 - (cfg.order_fee * (MonthsPerYear * cfg.years + ETFEvents(cfg))
                    + cfg.depot_fee_yearly * cfg.years)
        /\ res.total_value = res.gross_value

C21_Witness ==
    /\ Returned
    /\ calc = "ETF"
    /\ cfg.monthly_contribution = 0
    /\ cfg.initial_investment = 0
    /\ cfg.order_fee > 0
    /\ cfg.depot_fee_yearly > 0
    /\ cfg.years > 1
    /\ cfg.annual_return > 0
    /\ cfg.rebalancing_count = 0
    /\ cfg.contribution_dynamics = 0
    /\ res.total_value < 0

\* C25: in the rebalancing variant a gain taxed at an event is not taxed
\* again: the taxes of all events plus the terminal tax never exceed
\* capital_gains_tax times the total gain realised over the horizon (the
\* terminal value before tax plus the taxes already paid, minus what was paid
\* in).
C25_NoDoubleTaxation ==
    RebalancingReturned =>
        LET event_taxes == Simulation.total_rebalancing_taxes
            terminal_tax == res.gross_value - res.total_value
            total_gain == Max(0, res.gross_value + event_taxes - res.total_paid)
        IN  event_taxes + terminal_tax <= MulRate(total_gain, cfg.capital_gains_tax)

\* Twelve months of compounding from balance, as the simulation does them.
NextYearBalance(balance) ==
    rebalancing_months([balance |-> balance, invested_capital |-> 0,
                        total_order_fees |-> 0],
                       0, cfg, etf_net_annual_return(cfg)).balance

\* The balance with which the months after the event e start, recovered from
\* what the simulation records a year later.
CompoundsFrom(e, st) ==
    IF \E f \in 1 .. Len(st.events) : st.events[f].year = e.year + 1
    THEN \E f \in 1 .. Len(st.events) :
             /\ st.events[f].year = e.year + 1
             /\ st.events[f].balance_before = NextYearBalance(e.balance_after)
    ELSE st.yearly_values[e.year + 1][2] = NextYearBalance(e.balance_after)

\* The tax and the two spread costs of the event e, computed in order.
EventTax(e) ==
    MulRate(Max(0, e.current_gain - e.allowance_before), cfg.capital_gains_tax)

EventSellSpread(e) == MulRate(e.balance_before, cfg.spread)

EventBuySpread(e) ==
    MulRate(e.balance_before - EventTax(e) - EventSellSpread(e), cfg.spread)

C28_AllowanceBounds ==
    RebalancingReturned =>
        LET st == Simulation
        IN  /\ \A i \in 1 .. Len(st.events) :
                   LET e == st.events[i]
                   IN  /\ e.allowance_before = cfg.tax_allowance
                       /\ e.used_allowance = Min(e.current_gain, e.allowance_before)
                       /\ e.allowance_after = e.allowance_before - e.used_allowance
                       /\ 0 <= e.allowance_after
                       /\ e.allowance_after <= cfg.tax_allowance
            /\ 0 <= st.remaining_tax_allowance
            /\ st.remaining_tax_allowance <= cfg.tax_allowance

\* The order fees the claim C29 counts: one per monthly execution, one for
\* the lump sum and one per rebalancing event.
ExpectedOrderFees(c) ==
    c.order_fee * (MonthsPerYear * c.years
                   + (IF c.initial_investment > 0 THEN 1 ELSE 0)
                   + ETFEvents(c))

\* The compounded balance before fees of the path the run took.
CompoundedBalance(c) ==
    IF c.contribution_dynamics <= 0 /\ c.rebalancing_count > 0
    THEN rebalancing_simulation(c, etf_net_annual_return(c)).balance
    ELSE etf_accumulate(c, etf_net_annual_return(c)).final_value

\* C29: in every ETF path order fees accrue once per monthly execution, once
\* for the lump sum when initial_investment > 0 and once per rebalancing
\* event, depot fees once per year; gross_value is the compounded balance
\* minus these fees, and the taxable gain is computed from gross_value.
C29_FeesBeforeTax ==
    (Returned /\ calc = "ETF") =>
        /\ res.gross_value =
               CompoundedBalance(cfg) - ExpectedOrderFees(cfg)
               - cfg.depot_fee_yearly * cfg.years
        /\ res.total_value =
               res.gross_value
               - MulRate(Max(0, res.gross_value - res.total_paid - cfg.tax_allowance),
                         cfg.capital_gains_tax)

\* C30: for ETF and Privatrente (both payout options) the tax at withdrawal
\* is never negative: total_value <= gross_value for every input, also when
\* the terminal balance is below the contributions paid.
C30_TaxNeverNegative ==
    (Returned /\ calc \in {"ETF", "Privatrente"}) =>
        res.total_value <= res.gross_value

-----------------------------------------------------------------------------
(* The functions of dynamics.py as a state machine: a function is called    *)
(* with its arguments (InitD) and returns or raises.                        *)

DynamicsInputs ==
    [initial_monthly_contribution : {0, 100, 1000}, annual_dynamics_rate : {0, 20, 100},
     years : 0 .. MaxYears, annual_return : {0, 50}, initial_investment : Lump]

\* Longest list of nominal values that is tried.
MaxValues == 3

NominalValues == {-100, 0, 100, 10000}

ValueLists == UNION {[1 .. n -> NominalValues] : n \in 0 .. MaxValues}

InflationInputs ==
    [nominal_values : ValueLists, annual_inflation_rate : {-1000, 0, 20, 500}]

DynamicsFunctions == {"calculate_with_contribution_dynamics", "adjust_for_inflation"}

DynamicsArguments(k) ==
    IF k = "adjust_for_inflation" THEN InflationInputs ELSE DynamicsInputs

InitD ==
    /\ calc \in DynamicsFunctions
    /\ cfg \in DynamicsArguments(calc)
    /\ pc = "called"
    /\ res = [none |-> TRUE]

ContributionDynamics ==
    /\ pc = "called"
    /\ calc = "calculate_with_contribution_dynamics"
    /\ Finish(calculate_with_contribution_dynamics(
                  cfg.initial_monthly_contribution, cfg.annual_dynamics_rate,
                  cfg.years, cfg.annual_return, cfg.initial_investment))

AdjustForInflation ==
    /\ pc = "called"
    /\ calc = "adjust_for_inflation"
    /\ Finish(adjust_for_inflation(cfg.nominal_values, cfg.annual_inflation_rate))

NextD ==
    \/ ContributionDynamics
    \/ AdjustForInflation

SpecD == InitD /\ [][NextD]_vars

-----------------------------------------------------------------------------
(* Comparison as a state machine: the caller holds a list of results (cfg), *)
(* constructs a Comparison from it and asks for the recommendation.  A      *)
(* result is the record of its name and total_value; the results of a list  *)
(* are different objects, told apart here by their names.                   *)

\* Longest list of results that is compared.
MaxResults == 3

TotalValues == {-250, 0, 5000}

ResultLists ==
    {l \in UNION {[1 .. n -> [name : Calculators, total_value : TotalValues]] :
                      n \in 0 .. MaxResults} :
        \A i, j \in 1 .. Len(l) : l[i].name = l[j].name => i = j}

InitC ==
    /\ calc = "Comparison"
    /\ cfg \in ResultLists
    /\ pc = "given"
    /\ res = [none |-> TRUE]

\* Comparison(results)
ComparisonInit ==
    /\ pc = "given"
    /\ res' = [results |-> Comparison_init(cfg)]
    /\ pc' = "compared"
    /\ UNCHANGED <<calc, cfg>>

\* comparison.get_recommendation()
GetRecommendation ==
    /\ pc = "compared"
    /\ LET r == get_recommendation(res.results)
       IN  /\ res' = [results |-> res.results, recommendation |-> r]
           /\ pc' = IF IsError(r) THEN "raised" ELSE "recommended"
    /\ UNCHANGED <<calc, cfg>>

NextC ==
    \/ ComparisonInit
    \/ GetRecommendation

SpecC == InitC /\ [][NextC]_vars

-----------------------------------------------------------------------------
(* The event schedule of the rebalancing variant over long horizons.  Which *)
(* years get an event depends on years and rebalancing_count only, so the   *)
(* amounts of money are left out here; Spec has them for short horizons.    *)

\* Longest horizon, in years, whose schedule is computed.
MaxScheduleYears == 30

ScheduleConfigs ==
    [years : 1 .. MaxScheduleYears, rebalancing_count : 1 .. MaxScheduleYears]

\* The years of the loop over year = 1 .. years in which the test
\* `year in rebalancing_years` (line 214) succeeds, in the order of the loop.
event_years(c, list) ==
    SelectSeq([year \in 1 .. c.years |-> year], LAMBDA year : InList(year, list))

InitS ==
    /\ calc = "ETF"
    /\ cfg \in ScheduleConfigs
    /\ pc = "entered"
    /\ res = [none |-> TRUE]

\* Lines 173-180 of _calculate_with_rebalancing: the check and the schedule.
RebalancingSchedule ==
    /\ pc = "entered"
    /\ IF cfg.rebalancing_count >= cfg.years
       THEN /\ res' = [error |-> "ValueError"]
            /\ pc' = "raised"
       ELSE /\ res' = [rebalancing_years |-> rebalancing_years(cfg)]
            /\ pc' = "scheduled"
    /\ UNCHANGED <<calc, cfg>>

\* Lines 198-245: the loop over the years, as far as the events go.
RebalancingEvents ==
    /\ pc = "scheduled"
    /\ res' = [rebalancing_years |-> res.rebalancing_years,
               event_years |-> event_years(cfg, res.rebalancing_years)]
    /\ pc' = "simulated"
    /\ UNCHANGED <<calc, cfg>>

NextS ==
    \/ RebalancingSchedule
    \/ RebalancingEvents

SpecS == InitS /\ [][NextS]_vars

-----------------------------------------------------------------------------
(* Claims about Comparison, the dynamics functions and the event schedule *)

\* sorted is cfg in the order of non-increasing total_value, with the results
\* of equal total_value in the order they have in given.
IsStableSort(sorted, given) ==
    /\ Len(sorted) = Len(given)
    /\ \A i \in 1 .. Len(given) : \E j \in 1 .. Len(sorted) : sorted[j] = given[i]
    /\ \A i, j \in 1 .. Len(sorted) :
           i < j => sorted[i].total_value >= sorted[j].total_value
    /\ \A i, j \in 1 .. Len(given) :
           (i < j /\ given[i].total_value = given[j].total_value) =>
               \E k, l \in 1 .. Len(sorted) :
                   k < l /\ sorted[k] = given[i] /\ sorted[l] = given[j]

\* C22: Comparison(results).results is a permutation of the input ordered by
\* non-increasing total_value, results of equal total_value keep their input
\* order, the caller's list is not modified, and get_recommendation() names
\* results[0], which has the maximum total_value.
C22_SortedStable ==
    [][/\ cfg' = cfg
       /\ IsStableSort(res'.results, cfg)
       /\ pc' = "recommended" =>
              /\ res'.results = res.results
              /\ res'.recommendation.name = res.results[1].name
              /\ res'.recommendation.total_value = res.results[1].total_value
              /\ \A i \in 1 .. Len(cfg) :
                     cfg[i].total_value <= res'.recommendation.total_value]_vars

C22_Witness ==
    /\ pc = "recommended"
    /\ Len(cfg) = 3
    /\ cfg[1].total_value < cfg[2].total_value
    /\ cfg[2].total_value = cfg[3].total_value
    /\ res.results = <<cfg[2], cfg[3], cfg[1]>>
    /\ res.recommendation.name = cfg[2].name

\* initial_monthly * (1 + rate)^(y-1) summed over y = 1 .. years.
RECURSIVE ContributionSum(_, _, _)
ContributionSum(initial_monthly, rate, years) ==
    IF years <= 0
    THEN 0
    ELSE ContributionSum(initial_monthly, rate, years - 1)
         + GrowYears(initial_monthly, rate, years - 1)

\* What C23 says of the returned series and of total_contributions.
DynamicsShape ==
    /\ Len(res.yearly_values) = cfg.years + 1
    /\ res.yearly_values[1] = cfg.initial_investment
    /\ res.yearly_values[Len(res.yearly_values)] = res.total_capital
    /\ res.total_contributions =
           cfg.initial_investment
           + MonthsPerYear * ContributionSum(cfg.initial_monthly_contribution,
                                             cfg.annual_dynamics_rate, cfg.years)

StaticTotal ==
    cfg.initial_investment
    + MonthsPerYear * cfg.initial_monthly_contribution * cfg.years

DynamicsReturned == Returned /\ calc = "calculate_with_contribution_dynamics"

\* C23: calculate_with_contribution_dynamics returns yearly_values of length
\* years + 1 that start with initial_investment and end with the final
\* capital; year y is paid at initial_monthly * (1 + rate)^(y-1), so
\* total_contributions = initial_investment + 12 * the sum of these, which is
\* strictly greater than the static total whenever rate > 0,
\* initial_monthly > 0 and years >= 1.
C23_DynamicsContributions ==
    DynamicsReturned =>
        /\ DynamicsShape
        /\ (cfg.annual_dynamics_rate > 0 /\ cfg.initial_monthly_contribution > 0
              /\ cfg.years >= 1) =>
               res.total_contributions > StaticTotal

\* C23 amended: the same, with the strict inequality from years >= 2 on; for
\* years = 1 the two totals are equal.
C23_DynamicsContributionsAmended ==
    DynamicsReturned =>
        /\ DynamicsShape
        /\ (cfg.annual_dynamics_rate > 0 /\ cfg.initial_monthly_contribution > 0
              /\ cfg.years >= 2) =>
               res.total_contributions > StaticTotal
        /\ cfg.years <= 1 => res.total_contributions = StaticTotal

C23_Witness ==
    /\ DynamicsReturned
    /\ cfg.annual_dynamics_rate > 0
    /\ cfg.initial_monthly_contribution > 0
    /\ cfg.initial_investment > 0
    /\ cfg.years = 3
    /\ res.total_contributions > StaticTotal
    /\ res.total_capital > res.total_contributions

InflationCalled == calc = "adjust_for_inflation" /\ pc # "called"

\* nominal / (1 + rate)^i for the value at index i, counted from 0.
RealValue(nominal, rate, i) == (nominal * Scale) \div inflation_factor(rate, i)

\* C24: adjust_for_inflation returns a list of the same length with
\* real[i] = nominal[i] / (1 + rate)^i: the values unchanged for rate 0,
\* index 0 unchanged for every rate, and for every rate >= 0 each real value
\* less than or equal to its nominal value.
C24_InflationAdjustment ==
    InflationCalled =>
        /\ Returned
        /\ Len(res.real_values) = Len(cfg.nominal_values)
        /\ \A i \in 1 .. Len(cfg.nominal_values) :
               res.real_values[i] =
                   RealValue(cfg.nominal_values[i], cfg.annual_inflation_rate, i - 1)
        /\ cfg.annual_inflation_rate = 0 => res.real_values = cfg.nominal_values
        /\ Len(cfg.nominal_values) > 0 => res.real_values[1] = cfg.nominal_values[1]
        /\ cfg.annual_inflation_rate >= 0 =>
               \A i \in 1 .. Len(cfg.nominal_values) :
                   res.real_values[i] <= cfg.nominal_values[i]

\* C24 amended: for a rate of -1 and more than one value the call raises
\* ZeroDivisionError; otherwise it returns as stated, where for a rate >= 0 a
\* real value is at most its nominal value if that is not negative and at
\* least its nominal value if that is not positive.
C24_InflationAdjustmentAmended ==
    InflationCalled =>
        IF cfg.annual_inflation_rate = 0 - Scale /\ Len(cfg.nominal_values) > 1
        THEN pc = "raised" /\ res = [error |-> "ZeroDivisionError"]
        ELSE
        /\ Returned
        /\ Len(res.real_values) = Len(cfg.nominal_values)
        /\ \A i \in 1 .. Len(cfg.nominal_values) :
               res.real_values[i] =
                   RealValue(cfg.nominal_values[i], cfg.annual_inflation_rate, i - 1)
        /\ cfg.annual_inflation_rate = 0 => res.real_values = cfg.nominal_values
        /\ Len(cfg.nominal_values) > 0 => res.real_values[1] = cfg.nominal_values[1]
        /\ cfg.annual_inflation_rate >= 0 =>
               \A i \in 1 .. Len(cfg.nominal_values) :
                   /\ cfg.nominal_values[i] >= 0 =>
                          res.real_values[i] <= cfg.nominal_values[i]
                   /\ cfg.nominal_values[i] <= 0 =>
                          res.real_values[i] >= cfg.nominal_values[i]

C24_Witness ==
    /\ InflationCalled
    /\ Returned
    /\ cfg.annual_inflation_rate > 0
    /\ Len(cfg.nominal_values) = 3
    /\ cfg.nominal_values[1] > 0
    /\ cfg.nominal_values[2] < 0
    /\ cfg.nominal_values[3] > 0
    /\ res.real_values[2] > cfg.nominal_values[2]
    /\ res.real_values[3] < cfg.nominal_values[3]

\* C27: for 0 < rebalancing_count < years the simulation executes exactly
\* rebalancing_count events, at the years floor(years * i / (count + 1)) for
\* i = 1 .. count; these are pairwise distinct and lie in 1 .. years - 1.
C27_EventYears ==
    pc = "simulated" =>
        /\ Len(res.event_years) = cfg.rebalancing_count
        /\ \A i \in 1 .. Len(res.event_years) :
               /\ res.event_years[i] =
                      (cfg.years * i) \div (cfg.rebalancing_count + 1)
               /\ res.event_years[i] \in 1 .. cfg.years - 1
        /\ \A i, j \in 1 .. Len(res.event_years) :
               res.event_years[i] = res.event_years[j] => i = j

====
